---- MODULE Spec2Model ----
(***************************************************************************)
(* Model of the code generated by hecs' derive macros                      *)
(* (macros/src/lib.rs): derive(Bundle) -- the lazily initialised, sorted   *)
(* ELEMENTS signature, get_archetype and store -- and derive(Query) -- the *)
(* composite Fetch::get / next and Query::borrow / release.                *)
(***************************************************************************)
EXTENDS Integers, Sequences, FiniteSets, TLC

(* ------------------------------------------------------------------ *)
(* Bounds of the model                                                 *)
(* ------------------------------------------------------------------ *)
MaxFields == 3
MaxConcFields == 2
MaxCalls == 2
MaxQFields == 2
MaxEntities == 2

(* ------------------------------------------------------------------ *)
(* Component types: identity, alignment, display name                  *)
(* ------------------------------------------------------------------ *)
Types == {"Position", "i32", "bool"}

\* std::any::TypeId::of::<T>(): an opaque, injective, totally ordered identity.
TypeIdOf(ty) ==
  CASE ty = "Position" -> 7
    [] ty = "i32" -> 3
    [] ty = "bool" -> 5

\* std::mem::align_of::<T>()
AlignOf(ty) ==
  CASE ty = "Position" -> 4
    [] ty = "i32" -> 4
    [] ty = "bool" -> 1

\* std::any::type_name::<T>()
TypeNameOf(ty) == ty

\* TypeId::of::<()>(), the filler of the ids array before it is overwritten.
UnitTypeId == 0

Bundles == {"BundleA", "BundleB"}
Threads == {"t1", "t2"}

\* The field types of a derived struct, in declaration order.
DeclsUpTo(m) == UNION {[1..n -> Types] : n \in 0..m}

\* The component types and access modes of the fields of a derived query:
\* &T, &mut T, Option<&T>, Option<&mut T>.
QTypes == {"i32", "bool"}
Modes == {"ref", "mut", "opt_ref", "opt_mut"}
QFields == [ty : QTypes, mode : Modes]
QDecls == UNION {[1..n -> QFields] : n \in 0..MaxQFields}
Activations == {"a1", "a2"}

VARIABLES
  decl,        \* decl[b]: the declared field types of bundle struct b (struct_fields)
  cell,        \* cell[b]: the static ELEMENTS Lazy of bundle b
  pc,          \* pc[t]: where thread t is in its current call
  cur,         \* cur[t]: the bundle and operation of thread t's current call
  calls,       \* calls[t]: number of calls thread t has started
  waited,      \* waited[t]: the current call found another thread initialising
  ret,         \* ret[t]: what the current/last call obtained from elements()
  initRuns,    \* initRuns[b]: how often the ELEMENTS initialiser body started
  sortRuns,    \* sortRuns[b]: how often the initialiser reached its sort
  okCount,     \* okCount[b]: calls on b that obtained a signature
  returned,    \* returned[b]: the signatures elements() has returned for b
  panics,      \* panics[b]: the panic messages raised for b, in order
  table,       \* the ArchetypeTable: a sequence of archetypes, id = index - 1
  trace,       \* trace[t]: the table calls made by t's current get_archetype
  lastStore,   \* lastStore[t]: the archetype before and the slot of t's last store
  qdecl,       \* the fields of the derived query struct, in declaration order
  borrows,     \* the BorrowState: per component type, shared and unique counts
  qpc,         \* qpc[a]: where activation a of the query is
  blog,        \* blog[a]: the sub-borrow calls a's composite borrow issued
  rlog,        \* rlog[a]: the sub-release calls a's composite release issued
  fetch        \* fetch[a]: the outcome of a's last Fetch::get and its progress

bvars == <<decl, cell, pc, cur, calls, waited, ret, initRuns, sortRuns,
           okCount, returned, panics, table, trace, lastStore>>
qvars == <<qdecl, borrows, qpc, blog, rlog, fetch>>
vars == <<bvars, qvars>>

(* ------------------------------------------------------------------ *)
(* The ELEMENTS initialiser (lib.rs 56-71)                             *)
(* ------------------------------------------------------------------ *)

\* The dedup loop: index of the first field whose TypeId is already in the
\* HashSet, or 0 when every insert succeeds.
RECURSIVE DedupFrom(_, _, _)
DedupFrom(d, i, dedup) ==
  IF i > Len(d) THEN 0
  ELSE IF TypeIdOf(d[i]) \in dedup THEN i
  ELSE DedupFrom(d, i + 1, dedup \cup {TypeIdOf(d[i])})

\* A duplicate check that only compares a field with the one before it.
DedupLoopAdjacent(d) ==
  IF \E i \in 2..Len(d) : TypeIdOf(d[i]) = TypeIdOf(d[i - 1])
  THEN CHOOSE i \in 2..Len(d) :
         /\ TypeIdOf(d[i]) = TypeIdOf(d[i - 1])
         /\ \A j \in 2..(i - 1) : TypeIdOf(d[j]) # TypeIdOf(d[j - 1])
  ELSE 0

DedupLoop(d) == DedupFrom(d, 1, {})

\* The panic message of line 60: bundle name and type name.
DupMessage(b, d) ==
  [kind |-> "duplicate", bundle |-> b, type |-> TypeNameOf(d[DedupLoop(d)])]

\* Line 64: the (align_of, TypeId) array in declaration order.
TysArray(d) == [i \in 1..Len(d) |-> <<AlignOf(d[i]), TypeIdOf(d[i])>>]

\* Ordering::cmp on integers: -1 Less, 0 Equal, 1 Greater.
CmpInt(a, b) == IF a < b THEN -1 ELSE IF a > b THEN 1 ELSE 0

\* The comparator without its tie-break on the type identity.
CompareTysNoTie(x, y) == 0 - CmpInt(x[1], y[1])

\* The comparator without the reversal of the alignment order.
CompareTysNoReverse(x, y) ==
  IF CmpInt(x[1], y[1]) # 0 THEN CmpInt(x[1], y[1]) ELSE CmpInt(x[2], y[2])

\* Line 65: |x, y| x.0.cmp(&y.0).reverse().then(x.1.cmp(&y.1))
CompareTys(x, y) ==
  LET byAlign == 0 - CmpInt(x[1], y[1])
  IN  IF byAlign # 0 THEN byAlign ELSE CmpInt(x[2], y[2])

\* sort_unstable_by on a short slice is an insertion sort: each element is
\* shifted left while it compares Less than its left neighbour.
RECURSIVE InsertTail(_, _)
InsertTail(s, x) ==
  IF s = <<>> THEN <<x>>
  ELSE IF CompareTys(x, s[Len(s)]) < 0
       THEN Append(InsertTail(SubSeq(s, 1, Len(s) - 1), x), s[Len(s)])
       ELSE Append(s, x)

RECURSIVE SortUnstableBy(_)
SortUnstableBy(s) ==
  IF s = <<>> THEN <<>>
  ELSE InsertTail(SortUnstableBy(SubSeq(s, 1, Len(s) - 1)), s[Len(s)])

\* Lines 66-70: ids starts as [TypeId::of::<()>(); n] and is overwritten, through
\* the zip, by the identities of the sorted array.
IdsOf(tys) ==
  LET ids == [i \in 1..Len(tys) |-> UnitTypeId]
  IN  [i \in 1..Len(ids) |-> IF i <= Len(tys) THEN tys[i][2] ELSE ids[i]]

\* The value the initialiser produces when it does not panic.
Elements(d) == IdsOf(SortUnstableBy(TysArray(d)))

(* ------------------------------------------------------------------ *)
(* once_cell::sync::Lazy as used by `static ELEMENTS` (lib.rs 54-56,72) *)
(* ------------------------------------------------------------------ *)

\* Lazy::new(f): nothing computed yet, the initialiser closure is held.
NewLazy == [state |-> "incomplete", init |-> TRUE, value |-> <<>>]

\* What a dereference of the Lazy finds: the value, another thread running the
\* initialiser, or nothing yet so that this thread is to initialise.
LazyObserve(c) ==
  CASE c.state = "complete" -> "ready"
    [] c.state = "running" -> "busy"
    [] c.state = "incomplete" -> "start"

\* An initialiser that stays in the Lazy after it has been started.
TakeInitKeep(c) == [c EXCEPT !.state = "running"]

\* The initialising thread takes the closure out of the Lazy (init.take()).
TakeInit(c) == [c EXCEPT !.state = "running", !.init = FALSE]

\* Unwinding out of the initialiser: the cell is left without a value.
Unwind(c) == [c EXCEPT !.state = "incomplete"]

\* The initialiser returned: the value is published.
Publish(c, v) == [c EXCEPT !.state = "complete", !.value = v]

PoisonMessage(b) == [kind |-> "poisoned", bundle |-> b, type |-> ""]

(* ------------------------------------------------------------------ *)
(* The archetype table and archetype storage consumed by the generated *)
(* code: ArchetypeTable::get_id / alloc, Archetype::put                *)
(* ------------------------------------------------------------------ *)

\* ::hecs::TypeInfo::of::<T>(): alignment, identity and the type it describes.
TypeInfoOf(ty) == <<AlignOf(ty), TypeIdOf(ty), ty>>

\* Lines 81-82: the descriptor vector of the declared fields, sorted.
InfoVec(d) == SortUnstableBy([i \in 1..Len(d) |-> TypeInfoOf(d[i])])

\* The identity sequence an archetype is keyed by.
ArchIds(a) == [i \in 1..Len(a.info) |-> a.info[i][2]]

\* The component types an archetype has a column for.
ArchTypes(a) == {a.info[i][3] : i \in 1..Len(a.info)}

\* ArchetypeTable::get_id: Some(id) of the archetype with this signature, or None.
\* Option<u32> is a sequence of length at most one; ids count from 0.
GetId(tbl, sig) ==
  IF \E k \in 1..Len(tbl) : ArchIds(tbl[k]) = sig
  THEN <<(CHOOSE k \in 1..Len(tbl) : ArchIds(tbl[k]) = sig) - 1>>
  ELSE <<>>

\* ArchetypeTable::alloc: a new, empty archetype at the next id.
Alloc(tbl, info) == Append(tbl, [info |-> info, rows |-> <<>>])

\* The content of a column at a slot nothing has been written to.
Uninit == <<>>

\* Archetype::allocate: a fresh slot whose columns are all uninitialised.
AllocateSlot(a) ==
  [a EXCEPT !.rows = Append(@, [ty \in ArchTypes(a) |-> Uninit])]

\* Archetype::put::<T>(value, index): writes column T at slot index.
Put(a, ty, value, index) == [a EXCEPT !.rows[index][ty] = value]

(* ------------------------------------------------------------------ *)
(* DynamicBundle::get_archetype and store (lib.rs 76-92)               *)
(* ------------------------------------------------------------------ *)

\* A get_archetype that allocates whatever the lookup returned.
GetArchetypeAlwaysAlloc(tbl, sig, d) ==
  LET info == InfoVec(d)
      made == Alloc(tbl, info)
  IN  [calls |-> <<[op |-> "get_id", arg |-> sig, res |-> GetId(tbl, sig)],
                   [op |-> "alloc", arg |-> info, res |-> <<Len(made) - 1>>]>>,
       before |-> tbl, after |-> made, id |-> Len(made) - 1]

\* get_archetype once elements() has returned sig: the table calls it makes, the
\* table it leaves and the id it returns.
GetArchetype(tbl, sig, d) ==
  LET found == GetId(tbl, sig)
      look  == [op |-> "get_id", arg |-> sig, res |-> found]
  IN  IF found # <<>>
      THEN [calls |-> <<look>>, before |-> tbl, after |-> tbl, id |-> found[1]]
      ELSE LET info == InfoVec(d)
               made == Alloc(tbl, info)
           IN  [calls |-> <<look, [op |-> "alloc", arg |-> info, res |-> <<Len(made) - 1>>]>>,
                before |-> tbl, after |-> made, id |-> Len(made) - 1]

\* A store that leaves out the last field.
StoreOrderDropLast(d) == [i \in 1..(Len(d) - 1) |-> i]

\* The fields store writes, in declaration order.
StoreOrder(d) == [i \in 1..Len(d) |-> i]

\* store: one archetype.put(self.field, index) per field.
RECURSIVE StoreFields(_, _, _, _, _)
StoreFields(a, d, vals, index, order) ==
  IF order = <<>> THEN a
  ELSE StoreFields(Put(a, d[Head(order)], vals[Head(order)], index),
                   d, vals, index, Tail(order))

\* The bundle value a call spawns: one value per declared field.
BundleValue(t, n, d) == [i \in 1..Len(d) |-> <<t, n, i>>]

NoTrace == [calls |-> <<>>, before |-> <<>>, after |-> <<>>, id |-> 0]
NoStore == [done |-> FALSE, bundle |-> "", id |-> 0, index |-> 0,
            vals |-> <<>>, before |-> <<>>, puts |-> <<>>]

(* ------------------------------------------------------------------ *)
(* derive(Query): the composite Fetch and Query impls (lib.rs 164-202)  *)
(* ------------------------------------------------------------------ *)

IsOptional(m) == m \in {"opt_ref", "opt_mut"}
IsUnique(m) == m \in {"mut", "opt_mut"}

\* <T as Query>::Fetch::get for one field: a reference field needs its column;
\* an Option field always succeeds and is absent when the column is missing.
SubGet(f, arch) ==
  IF f.ty \in arch.types THEN [ok |-> TRUE, present |-> TRUE, pos |-> 0]
  ELSE IF IsOptional(f.mode) THEN [ok |-> TRUE, present |-> FALSE, pos |-> 0]
  ELSE [ok |-> FALSE, present |-> FALSE, pos |-> 0]

\* Fetch::get (lines 170-176): Some(Self { f: <T>::Fetch::get(archetype)?, ... }).
\* Each `?` returns None at once; attempted counts the sub-fetches tried.
RECURSIVE GetFrom(_, _, _, _)
GetFrom(fields, arch, i, acc) ==
  IF i > Len(fields)
  THEN [matched |-> TRUE, state |-> acc, attempted |-> Len(fields)]
  ELSE LET r == SubGet(fields[i], arch)
       IN  IF r.ok
           THEN GetFrom(fields, arch, i + 1, Append(acc, [present |-> r.present, pos |-> r.pos]))
           ELSE [matched |-> FALSE, state |-> <<>>, attempted |-> i]

\* A get that tries every field's sub-fetch before it decides.
CompositeGetEager(fields, arch) ==
  LET rs == [i \in 1..Len(fields) |-> SubGet(fields[i], arch)]
  IN  IF \A i \in 1..Len(fields) : rs[i].ok
      THEN [matched |-> TRUE,
            state |-> [i \in 1..Len(fields) |-> [present |-> rs[i].present, pos |-> rs[i].pos]],
            attempted |-> Len(fields)]
      ELSE [matched |-> FALSE, state |-> <<>>, attempted |-> Len(fields)]

CompositeGet(fields, arch) == GetFrom(fields, arch, 1, <<>>)

\* One sub-fetch's next(): the item at its position, and the position advanced.
SubItem(f, s) == IF s.present THEN <<f.ty, s.pos>> ELSE <<>>
SubNext(s) == IF s.present THEN [s EXCEPT !.pos = @ + 1] ELSE s

\* Fetch::next (lines 178-184): every sub-fetch advances once.
CompositeNext(fields, state) ==
  [item  |-> [i \in 1..Len(state) |-> SubItem(fields[i], state[i])],
   state |-> [i \in 1..Len(state) |-> SubNext(state[i])]]

\* BorrowState::borrow / borrow_mut for one component type: any number of shared
\* accesses, or one unique access exclusive of all others. A refused borrow
\* changes nothing.
SubBorrow(bs, f) ==
  IF IsUnique(f.mode)
  THEN IF bs[f.ty].shared = 0 /\ bs[f.ty].unique = 0
       THEN [ok |-> TRUE, bs |-> [bs EXCEPT ![f.ty].unique = @ + 1]]
       ELSE [ok |-> FALSE, bs |-> bs]
  ELSE IF bs[f.ty].unique = 0
       THEN [ok |-> TRUE, bs |-> [bs EXCEPT ![f.ty].shared = @ + 1]]
       ELSE [ok |-> FALSE, bs |-> bs]

\* BorrowState::release / release_mut for one component type.
SubRelease(bs, f) ==
  IF IsUnique(f.mode)
  THEN [bs EXCEPT ![f.ty].unique = @ - 1]
  ELSE [bs EXCEPT ![f.ty].shared = @ - 1]

\* Query::borrow (lines 190-194): one <T as Query>::borrow(state) per field, in
\* declaration order; a refused sub-borrow panics out of the loop.
RECURSIVE BorrowFrom(_, _, _, _)
BorrowFrom(bs, fields, i, log) ==
  IF i > Len(fields) THEN [ok |-> TRUE, bs |-> bs, log |-> log]
  ELSE LET r == SubBorrow(bs, fields[i])
       IN  IF r.ok
           THEN BorrowFrom(r.bs, fields, i + 1, Append(log, fields[i]))
           ELSE [ok |-> FALSE, bs |-> r.bs, log |-> Append(log, fields[i])]

\* A borrow that only borrows the first field.
CompositeBorrowFirstOnly(bs, fields) ==
  BorrowFrom(bs, SubSeq(fields, 1, IF Len(fields) > 0 THEN 1 ELSE 0), 1, <<>>)

CompositeBorrow(bs, fields) == BorrowFrom(bs, fields, 1, <<>>)

\* Query::release (lines 196-200): one <T as Query>::release(state) per field, in
\* declaration order.
RECURSIVE ReleaseFrom(_, _, _, _)
ReleaseFrom(bs, fields, i, log) ==
  IF i > Len(fields) THEN [bs |-> bs, log |-> log]
  ELSE ReleaseFrom(SubRelease(bs, fields[i]), fields, i + 1, Append(log, fields[i]))

\* A release that leaves out the last field.
CompositeReleaseDropLast(bs, fields) ==
  ReleaseFrom(bs, SubSeq(fields, 1, Len(fields) - 1), 1, <<>>)

CompositeRelease(bs, fields) == ReleaseFrom(bs, fields, 1, <<>>)

NoFetch == [got |-> FALSE, arch |-> [types |-> {}, len |-> 0], matched |-> FALSE,
            state |-> <<>>, attempted |-> 0, remaining |-> 0, items |-> 0,
            item |-> <<>>]

\* The archetypes a query may be run against: a set of columns and a length.
QArchetypes == [types : SUBSET QTypes, len : 0..MaxEntities]

(* ------------------------------------------------------------------ *)
(* Initial states                                                      *)
(* ------------------------------------------------------------------ *)

\* The bundle side before any call, for bundle structs declared from D.
BundleInit(D) ==
  /\ decl \in [Bundles -> D]
  /\ cell = [b \in Bundles |-> NewLazy]
  /\ pc = [t \in Threads |-> "idle"]
  /\ cur = [t \in Threads |-> [bundle |-> "BundleA", op |-> "elements"]]
  /\ calls = [t \in Threads |-> 0]
  /\ waited = [t \in Threads |-> FALSE]
  /\ ret = [t \in Threads |-> <<>>]
  /\ initRuns = [b \in Bundles |-> 0]
  /\ sortRuns = [b \in Bundles |-> 0]
  /\ okCount = [b \in Bundles |-> 0]
  /\ returned = [b \in Bundles |-> {}]
  /\ panics = [b \in Bundles |-> <<>>]
  /\ table = <<>>
  /\ trace = [t \in Threads |-> NoTrace]
  /\ lastStore = [t \in Threads |-> NoStore]

\* The query side before any activation, for a query struct declared from Q.
QueryInit(Q) ==
  /\ qdecl \in Q
  /\ borrows = [ty \in QTypes |-> [shared |-> 0, unique |-> 0]]
  /\ qpc = [a \in Activations |-> "idle"]
  /\ blog = [a \in Activations |-> <<>>]
  /\ rlog = [a \in Activations |-> <<>>]
  /\ fetch = [a \in Activations |-> NoFetch]

(* ------------------------------------------------------------------ *)
(* Actions of the bundle side                                          *)
(* ------------------------------------------------------------------ *)

RECURSIVE SumOver(_, _)
SumOver(f, S) ==
  IF S = {} THEN 0
  ELSE LET x == CHOOSE y \in S : TRUE IN f[x] + SumOver(f, S \ {x})

\* A get_archetype that goes to the table without calling elements().
FirstStepSkipElements(op) == IF op = "spawn" THEN "table" ELSE "force"

\* Where a call begins: both elements() and get_archetype() start by
\* dereferencing ELEMENTS (lines 72 and 79).
FirstStep(op) == "force"

\* A thread calls Bundle::elements() or spawns a bundle value (get_archetype,
\* then store). The table is borrowed mutably, so one spawn runs at a time.
Call(t, b, op) ==
  /\ pc[t] = "idle"
  /\ SumOver(calls, Threads) < MaxCalls
  /\ op = "spawn" => \A u \in Threads : pc[u] = "idle" \/ cur[u].op # "spawn"
  /\ pc' = [pc EXCEPT ![t] = FirstStep(op)]
  /\ cur' = [cur EXCEPT ![t] = [bundle |-> b, op |-> op]]
  /\ calls' = [calls EXCEPT ![t] = @ + 1]
  /\ waited' = [waited EXCEPT ![t] = FALSE]
  /\ ret' = [ret EXCEPT ![t] = <<>>]
  /\ trace' = [trace EXCEPT ![t] = NoTrace]
  /\ lastStore' = [lastStore EXCEPT ![t] = NoStore]
  /\ UNCHANGED <<decl, cell, initRuns, sortRuns, okCount, returned, panics, table>>
  /\ UNCHANGED qvars

\* elements() hands out &*ELEMENTS: the call has its signature.
Obtain(t, b, v) ==
  /\ ret' = [ret EXCEPT ![t] = v]
  /\ okCount' = [okCount EXCEPT ![b] = @ + 1]
  /\ returned' = [returned EXCEPT ![b] = @ \cup {v}]
  /\ pc' = [pc EXCEPT ![t] = IF cur[t].op = "spawn" THEN "table" ELSE "idle"]

\* A panic unwinds the call; the thread may go on to make other calls.
Panic(t, b, msg) ==
  /\ panics' = [panics EXCEPT ![b] = Append(@, msg)]
  /\ pc' = [pc EXCEPT ![t] = "idle"]

\* &*ELEMENTS: Lazy::force.
Force(t) ==
  /\ pc[t] = "force"
  /\ LET b == cur[t].bundle
         c == cell[b]
     IN  \/ /\ LazyObserve(c) = "ready"
            /\ Obtain(t, b, c.value)
            /\ UNCHANGED <<cell, waited, initRuns, panics>>
         \/ /\ LazyObserve(c) = "busy"
            /\ pc' = [pc EXCEPT ![t] = "wait"]
            /\ waited' = [waited EXCEPT ![t] = TRUE]
            /\ UNCHANGED <<cell, ret, okCount, returned, initRuns, panics>>
         \/ /\ LazyObserve(c) = "start"
            /\ c.init
            /\ cell' = [cell EXCEPT ![b] = TakeInit(c)]
            /\ initRuns' = [initRuns EXCEPT ![b] = @ + 1]
            /\ pc' = [pc EXCEPT ![t] = "dedup"]
            /\ UNCHANGED <<waited, ret, okCount, returned, panics>>
         \/ /\ LazyObserve(c) = "start"
            /\ ~c.init
            /\ Panic(t, b, PoisonMessage(b))
            /\ UNCHANGED <<cell, waited, ret, okCount, returned, initRuns>>
  /\ UNCHANGED <<decl, cur, calls, sortRuns, table, trace, lastStore>>
  /\ UNCHANGED qvars

\* A thread parked on a running initialiser is woken when it ends.
Wake(t) ==
  /\ pc[t] = "wait"
  /\ cell[cur[t].bundle].state # "running"
  /\ pc' = [pc EXCEPT ![t] = "force"]
  /\ UNCHANGED <<decl, cell, cur, calls, waited, ret, initRuns, sortRuns,
                 okCount, returned, panics, table, trace, lastStore>>
  /\ UNCHANGED qvars

\* The initialiser's duplicate check (lines 57-62).
Dedup(t) ==
  /\ pc[t] = "dedup"
  /\ LET b == cur[t].bundle
     IN  \/ /\ DedupLoop(decl[b]) # 0
            /\ Panic(t, b, DupMessage(b, decl[b]))
            /\ cell' = [cell EXCEPT ![b] = Unwind(@)]
         \/ /\ DedupLoop(decl[b]) = 0
            /\ pc' = [pc EXCEPT ![t] = "sort"]
            /\ UNCHANGED <<cell, panics>>
  /\ UNCHANGED <<decl, cur, calls, waited, ret, initRuns, sortRuns, okCount,
                 returned, table, trace, lastStore>>
  /\ UNCHANGED qvars

\* The initialiser's sort and its result (lines 64-70), published by the Lazy.
Sort(t) ==
  /\ pc[t] = "sort"
  /\ LET b == cur[t].bundle
         v == Elements(decl[b])
     IN  /\ sortRuns' = [sortRuns EXCEPT ![b] = @ + 1]
         /\ cell' = [cell EXCEPT ![b] = Publish(@, v)]
         /\ Obtain(t, b, v)
  /\ UNCHANGED <<decl, cur, calls, waited, initRuns, panics, table, trace,
                 lastStore>>
  /\ UNCHANGED qvars

\* The rest of get_archetype: lookup, and allocation on a miss.
Resolve(t) ==
  /\ pc[t] = "table"
  /\ LET r == GetArchetype(table, ret[t], decl[cur[t].bundle])
     IN  /\ trace' = [trace EXCEPT ![t] = r]
         /\ table' = r.after
  /\ pc' = [pc EXCEPT ![t] = "store"]
  /\ UNCHANGED <<decl, cell, cur, calls, waited, ret, initRuns, sortRuns,
                 okCount, returned, panics, lastStore>>
  /\ UNCHANGED qvars

\* The caller allocates a slot in the resolved archetype and store writes the
\* bundle's fields there.
Store(t) ==
  /\ pc[t] = "store"
  /\ LET b     == cur[t].bundle
         d     == decl[b]
         k     == trace[t].id + 1
         a     == AllocateSlot(table[k])
         index == Len(a.rows)
         vals  == BundleValue(t, calls[t], d)
         order == StoreOrder(d)
     IN  /\ table' = [table EXCEPT ![k] = StoreFields(a, d, vals, index, order)]
         /\ lastStore' = [lastStore EXCEPT ![t] =
              [done |-> TRUE, bundle |-> b, id |-> trace[t].id, index |-> index,
               vals |-> vals, before |-> [table EXCEPT ![k] = a],
               puts |-> [i \in 1..Len(order) |-> <<d[order[i]], index>>]]]
  /\ pc' = [pc EXCEPT ![t] = "idle"]
  /\ UNCHANGED <<decl, cell, cur, calls, waited, ret, initRuns, sortRuns,
                 okCount, returned, panics, trace>>
  /\ UNCHANGED qvars

BundleNext(T) ==
  \/ \E t \in T, b \in Bundles, op \in {"elements", "spawn"} : Call(t, b, op)
  \/ \E t \in T : Force(t)
  \/ \E t \in T : Wake(t)
  \/ \E t \in T : Dedup(t)
  \/ \E t \in T : Sort(t)
  \/ \E t \in T : Resolve(t)
  \/ \E t \in T : Store(t)

(* ------------------------------------------------------------------ *)
(* Actions of the query side: one activation is borrow, then get per    *)
(* archetype and next per entity, then release (also when abandoned)    *)
(* ------------------------------------------------------------------ *)

\* World::query: the composite borrow. A panic ends this activation for good.
Activate(a) ==
  /\ qpc[a] \in {"idle", "released"}
  /\ LET r == CompositeBorrow(borrows, qdecl)
     IN  /\ borrows' = r.bs
         /\ blog' = [blog EXCEPT ![a] = r.log]
         /\ qpc' = [qpc EXCEPT ![a] = IF r.ok THEN "borrowed" ELSE "failed"]
  /\ rlog' = [rlog EXCEPT ![a] = <<>>]
  /\ fetch' = [fetch EXCEPT ![a] = NoFetch]
  /\ UNCHANGED qdecl
  /\ UNCHANGED bvars

\* The iteration reaches an archetype: the composite get.
Get(a, arch) ==
  /\ qpc[a] = "borrowed"
  /\ fetch[a].remaining = 0
  /\ LET r == CompositeGet(qdecl, arch)
     IN  fetch' = [fetch EXCEPT ![a] =
           [got |-> TRUE, arch |-> arch, matched |-> r.matched, state |-> r.state,
            attempted |-> r.attempted,
            remaining |-> IF r.matched THEN arch.len ELSE 0,
            items |-> 0, item |-> <<>>]]
  /\ UNCHANGED <<qdecl, borrows, qpc, blog, rlog>>
  /\ UNCHANGED bvars

\* The iteration yields the next entity of the matched archetype.
NextItem(a) ==
  /\ qpc[a] = "borrowed"
  /\ fetch[a].matched
  /\ fetch[a].remaining > 0
  /\ LET r == CompositeNext(qdecl, fetch[a].state)
     IN  fetch' = [fetch EXCEPT ![a].state = r.state, ![a].item = r.item,
                                ![a].remaining = @ - 1, ![a].items = @ + 1]
  /\ UNCHANGED <<qdecl, borrows, qpc, blog, rlog>>
  /\ UNCHANGED bvars

\* The iterator is dropped, exhausted or not: the composite release.
Release(a) ==
  /\ qpc[a] = "borrowed"
  /\ LET r == CompositeRelease(borrows, qdecl)
     IN  /\ borrows' = r.bs
         /\ rlog' = [rlog EXCEPT ![a] = r.log]
  /\ qpc' = [qpc EXCEPT ![a] = "released"]
  /\ UNCHANGED <<qdecl, blog, fetch>>
  /\ UNCHANGED bvars

QueryNext ==
  \/ \E a \in Activations : Activate(a)
  \/ \E a \in Activations, arch \in QArchetypes : Get(a, arch)
  \/ \E a \in Activations : NextItem(a)
  \/ \E a \in Activations : Release(a)

(* ------------------------------------------------------------------ *)
(* Specifications                                                      *)
(* ------------------------------------------------------------------ *)

\* Threads calling elements() and spawning concurrently.
Init == BundleInit(DeclsUpTo(MaxConcFields)) /\ QueryInit({<<>>})
Next == BundleNext(Threads)
Spec == Init /\ [][Next]_vars

\* The signature computation applied to every declaration, by one thread.
InitCanon == BundleInit(DeclsUpTo(MaxFields)) /\ QueryInit({<<>>})
NextCanon ==
  \/ \E b \in Bundles : Call("t1", b, "elements")
  \/ Force("t1")
  \/ Dedup("t1")
  \/ Sort("t1")
SpecCanon == InitCanon /\ [][NextCanon]_vars

\* Activations of a derived query.
InitQuery == BundleInit({<<>>}) /\ QueryInit(QDecls)
NextQuery == QueryNext
SpecQuery == InitQuery /\ [][NextQuery]_vars

(* ------------------------------------------------------------------ *)
(* Properties                                                          *)
(* ------------------------------------------------------------------ *)

\* A declaration whose component types are pairwise distinct.
Distinct(d) == \A i, j \in 1..Len(d) : TypeIdOf(d[i]) = TypeIdOf(d[j]) => i = j
TypeSet(d) == {d[i] : i \in 1..Len(d)}
\* The types that occur in more than one field of a declaration.
Repeated(d) == {d[i] : i \in {k \in 1..Len(d) : \E j \in 1..Len(d) : j # k /\ d[j] = d[k]}}
TypeOfId(id) == CHOOSE ty \in Types : TypeIdOf(ty) = id
Computed(b) == cell[b].state = "complete"

\* C1: two declarations of the same set of pairwise distinct component types,
\* in whatever orders, get the identical signature from elements().
OrderIndependence ==
  \A b1, b2 \in Bundles :
    ( /\ Computed(b1) /\ Computed(b2)
      /\ Distinct(decl[b1]) /\ Distinct(decl[b2])
      /\ TypeSet(decl[b1]) = TypeSet(decl[b2]) )
    => /\ cell[b1].value = cell[b2].value
       /\ returned[b1] \cup returned[b2] = {cell[b1].value}

\* Two different orders of the same three types have both been canonicalised.
OrderIndependenceWitness ==
  /\ Computed("BundleA") /\ Computed("BundleB")
  /\ Distinct(decl["BundleA"]) /\ Len(decl["BundleA"]) >= 2
  /\ TypeSet(decl["BundleA"]) = TypeSet(decl["BundleB"])
  /\ Len(decl["BundleA"]) = Len(decl["BundleB"])
  /\ decl["BundleA"] # decl["BundleB"]
  /\ returned["BundleA"] # {} /\ returned["BundleB"] # {}

\* C2: the first computation of the signature of a declaration with a repeated
\* component type panics, naming the bundle and a repeated type, before the sort
\* and without producing a signature; with pairwise distinct types it does not.
DuplicateRejection ==
  \A b \in Bundles :
    /\ ~Distinct(decl[b]) =>
         /\ sortRuns[b] = 0 /\ ~Computed(b) /\ returned[b] = {}
         /\ \A t \in Threads : cur[t].bundle = b => pc[t] # "sort"
         /\ (initRuns[b] >= 1 /\ cell[b].state # "running") =>
              /\ panics[b] # <<>>
              /\ panics[b][1].kind = "duplicate"
              /\ panics[b][1].bundle = b
              /\ panics[b][1].type \in {TypeNameOf(ty) : ty \in Repeated(decl[b])}
    /\ Distinct(decl[b]) =>
         /\ panics[b] = <<>>
         /\ (initRuns[b] >= 1 /\ cell[b].state # "running") =>
              Computed(b) /\ sortRuns[b] = 1

\* A declaration whose repeated fields are not adjacent has been rejected.
DuplicateRejectionWitness ==
  \E b \in Bundles :
    /\ Len(decl[b]) >= 3 /\ decl[b][1] = decl[b][3] /\ decl[b][1] # decl[b][2]
    /\ panics[b] # <<>> /\ panics[b][1].kind = "duplicate"

\* C3: whatever the interleaving of the threads, the initialiser of a bundle's
\* ELEMENTS runs at most once and every call that returns has the same signature.
AtMostOnceInit ==
  \A b \in Bundles :
    /\ initRuns[b] <= 1 /\ sortRuns[b] <= 1
    /\ Cardinality(returned[b]) <= 1
    /\ returned[b] # {} => Computed(b) /\ returned[b] = {cell[b].value}
    /\ okCount[b] >= 1 => returned[b] # {}

\* Two threads made the first call at once: one ran the initialiser, the other
\* waited for it, and both have the signature.
AtMostOnceInitWitness ==
  \E b \in Bundles, t, u \in Threads :
    /\ t # u /\ cur[t].bundle = b /\ cur[u].bundle = b
    /\ waited[t] /\ ~waited[u] /\ calls[t] = 1 /\ calls[u] = 1
    /\ pc[t] = "idle" /\ pc[u] = "idle"
    /\ okCount[b] = 2 /\ initRuns[b] = 1 /\ Len(decl[b]) >= 2

DupPanics(b) == {i \in 1..Len(panics[b]) : panics[b][i].kind = "duplicate"}

\* C4: once the signature computation of a bundle has failed on a duplicate, no
\* call for it ever obtains a signature, every later call fails, its get_archetype
\* never reaches the table, and the duplicate is reported exactly once.
PermanentFailure ==
  \A b \in Bundles :
    DupPanics(b) # {} =>
      /\ DupPanics(b) = {1}
      /\ initRuns[b] = 1
      /\ okCount[b] = 0 /\ returned[b] = {} /\ ~Computed(b)
      /\ \A t \in Threads :
           cur[t].bundle = b =>
             /\ pc[t] \notin {"sort", "table", "store"}
             /\ trace[t].calls = <<>>
             /\ ~lastStore[t].done

\* After the duplicate was reported, a later spawn of the same bundle failed too.
PermanentFailureWitness ==
  \E b \in Bundles, t \in Threads :
    /\ Len(panics[b]) >= 2 /\ panics[b][1].kind = "duplicate"
    /\ panics[b][2].kind = "poisoned"
    /\ cur[t].bundle = b /\ cur[t].op = "spawn" /\ pc[t] = "idle"

\* C5: the signature of a declaration of pairwise distinct types holds exactly
\* the declared identities, each once, by decreasing alignment and, at equal
\* alignment, by ascending identity.
CanonicalOrder ==
  \A b \in Bundles :
    (Computed(b) /\ Distinct(decl[b])) =>
      LET sig == cell[b].value
      IN  /\ Len(sig) = Len(decl[b])
          /\ {sig[i] : i \in 1..Len(sig)} = {TypeIdOf(ty) : ty \in TypeSet(decl[b])}
          /\ \A i, j \in 1..Len(sig) : sig[i] = sig[j] => i = j
          /\ \A i \in 1..(Len(sig) - 1) :
               LET x == TypeOfId(sig[i])
                   y == TypeOfId(sig[i + 1])
               IN  \/ AlignOf(x) > AlignOf(y)
                   \/ AlignOf(x) = AlignOf(y) /\ TypeIdOf(x) < TypeIdOf(y)

\* A declaration that is not in canonical order, with two alignments and a tie,
\* has been canonicalised.
CanonicalOrderWitness ==
  \E b \in Bundles :
    /\ Computed(b) /\ decl[b] = <<"bool", "Position", "i32">>
    /\ cell[b].value = <<TypeIdOf("i32"), TypeIdOf("Position"), TypeIdOf("bool")>>

\* C6: get_archetype looks the signature up first; it allocates exactly when the
\* lookup found nothing, once, with one descriptor per declared type; on a hit
\* the table stays as it was and the id found is returned.
LookupBeforeAllocate ==
  \A t \in Threads :
    trace[t].calls # <<>> =>
      LET c == trace[t].calls
          d == decl[cur[t].bundle]
      IN  /\ c[1].op = "get_id" /\ c[1].arg = ret[t]
          /\ Len(c) <= 2
          /\ Len(c) = 2 <=> c[1].res = <<>>
          /\ Len(c) = 2 =>
               /\ c[2].op = "alloc"
               /\ Len(c[2].arg) = Len(d)
               /\ \A i, j \in 1..Len(c[2].arg) : c[2].arg[i][3] = c[2].arg[j][3] => i = j
               /\ {c[2].arg[i][3] : i \in 1..Len(c[2].arg)} = TypeSet(d)
               /\ \A i \in 1..Len(c[2].arg) : c[2].arg[i] = TypeInfoOf(c[2].arg[i][3])
               /\ trace[t].id = c[2].res[1]
          /\ Len(c) = 1 =>
               /\ trace[t].after = trace[t].before
               /\ trace[t].id = c[1].res[1]
               /\ ArchIds(trace[t].before[trace[t].id + 1]) = ret[t]

\* A spawn found the archetype that an earlier spawn of a differently ordered
\* declaration had allocated.
LookupBeforeAllocateWitness ==
  \E t \in Threads :
    /\ Len(trace[t].calls) = 1 /\ lastStore[t].done
    /\ Len(decl[cur[t].bundle]) >= 2
    /\ \E b \in Bundles : TypeSet(decl[b]) = TypeSet(decl[cur[t].bundle]) /\ decl[b] # decl[cur[t].bundle]

\* C10: after get_archetype and store, the slot holds every field's value in the
\* column of the field's type, each column was written once, and no other slot
\* of any archetype has changed.
RoundTrip ==
  \A t \in Threads :
    lastStore[t].done =>
      LET ls == lastStore[t]
          d  == decl[ls.bundle]
          k  == ls.id + 1
      IN  /\ Distinct(d)
          /\ DOMAIN table[k].rows[ls.index] = TypeSet(d)
          /\ \A ty \in TypeSet(d) : ls.before[k].rows[ls.index][ty] = Uninit
          /\ \A i \in 1..Len(d) : table[k].rows[ls.index][d[i]] = ls.vals[i]
          /\ Len(ls.puts) = Len(d)
          /\ \A i \in 1..Len(d) :
               Cardinality({j \in 1..Len(ls.puts) : ls.puts[j] = <<d[i], ls.index>>}) = 1
          /\ \A a \in 1..Len(ls.before) :
               \A j \in 1..Len(ls.before[a].rows) :
                 (a # k \/ j # ls.index) => table[a].rows[j] = ls.before[a].rows[j]

\* A bundle of two components was stored in the second slot of its archetype.
RoundTripWitness ==
  \E t \in Threads :
    /\ lastStore[t].done /\ lastStore[t].index = 2
    /\ Len(decl[lastStore[t].bundle]) = 2
    /\ table[lastStore[t].id + 1].rows[2][decl[lastStore[t].bundle][1]] = lastStore[t].vals[1]

Required(f) == ~IsOptional(f.mode)
Missing(i, arch) == Required(qdecl[i]) /\ qdecl[i].ty \notin arch.types

\* C7: get matches exactly when every non-optional field's type is in the
\* archetype; an optional field is absent when its type is missing; on a miss no
\* sub-fetch after the first failing field is attempted.
GetConjunction ==
  \A a \in Activations :
    fetch[a].got =>
      LET f == fetch[a]
      IN  /\ f.matched <=> \A i \in 1..Len(qdecl) : ~Missing(i, f.arch)
          /\ f.matched =>
               /\ Len(f.state) = Len(qdecl)
               /\ f.attempted = Len(qdecl)
               /\ \A i \in 1..Len(qdecl) :
                    f.state[i].present <=> qdecl[i].ty \in f.arch.types
          /\ ~f.matched =>
               /\ f.attempted \in 1..Len(qdecl)
               /\ Missing(f.attempted, f.arch)
               /\ \A i \in 1..(f.attempted - 1) : ~Missing(i, f.arch)
               /\ f.items = 0
          /\ ( /\ Len(qdecl) = 2
               /\ qdecl[1] = [ty |-> "i32", mode |-> "ref"]
               /\ qdecl[2] = [ty |-> "bool", mode |-> "opt_ref"] ) =>
               /\ f.arch.types = {"i32"} => f.matched /\ ~f.state[2].present
               /\ f.arch.types = {} => ~f.matched

\* The query (&i32, Option<&bool>) matched an archetype holding only i32 and
\* yielded an item whose second field is absent.
GetConjunctionWitness ==
  \E a \in Activations :
    /\ qdecl = <<[ty |-> "i32", mode |-> "ref"], [ty |-> "bool", mode |-> "opt_ref"]>>
    /\ fetch[a].got /\ fetch[a].arch.types = {"i32"} /\ fetch[a].matched
    /\ fetch[a].items = 1 /\ fetch[a].item = <<<<"i32", 0>>, <<>>>>

Active(a) == qpc[a] = "borrowed"
\* The fields whose borrow an activation holds: all of them while it is active,
\* those before the refused one after a panic, none otherwise.
Held(a) ==
  IF Active(a) THEN qdecl
  ELSE IF qpc[a] = "failed" THEN SubSeq(blog[a], 1, Len(blog[a]) - 1)
  ELSE <<>>
HeldCount(a, ty, unique) ==
  Cardinality({i \in 1..Len(Held(a)) : Held(a)[i].ty = ty /\ IsUnique(Held(a)[i].mode) = unique})

Conflicting(q) ==
  \E i, j \in 1..Len(q) : i # j /\ q[i].ty = q[j].ty /\ IsUnique(q[i].mode)

\* C9: the composite borrow of a query that accesses a type both shared and
\* unique, or twice unique, fails before get or next run; no state holds a
\* unique access together with any other access to the same type.
ConflictRejected ==
  /\ Conflicting(qdecl) =>
       \A a \in Activations :
         /\ qpc[a] \in {"idle", "failed"}
         /\ ~fetch[a].got /\ fetch[a].items = 0
  /\ \A ty \in QTypes :
       /\ borrows[ty].unique <= 1
       /\ borrows[ty].unique = 1 => borrows[ty].shared = 0

\* The borrow of (Option<&T>, &mut T) was refused at its second field.
ConflictRejectedWitness ==
  \E a \in Activations :
    /\ Len(qdecl) = 2 /\ qdecl[1].ty = qdecl[2].ty
    /\ qdecl[1].mode = "opt_ref" /\ qdecl[2].mode = "mut"
    /\ qpc[a] = "failed" /\ Len(blog[a]) = 2

====
